---------------------------- MODULE Spec2Model ----------------------------
(***************************************************************************)
(* Model of the E2B/Aider code generator (src/generator.py) and of the     *)
(* live previewer (src/previewer.py).                                      *)
(*                                                                         *)
(* Text is modelled as a sequence of atoms (TLA+ strings); concatenation   *)
(* is \o, so f-strings, str.replace, str.startswith and ''.join are        *)
(* computed, not assumed.  No atom is a prefix of a concatenation of other *)
(* atoms, so equality of atom sequences is equality of the Python strings. *)
(***************************************************************************)
EXTENDS Integers, Sequences, FiniteSets, TLC

VARIABLES
    \* ---- E2BAiderClient.generate_code (generator.py) ----
    aider_template_id,  \* self.aider_template_id is set (truthy)
    gpc,                \* position inside generate_code
    opened,             \* sandboxes created by self.Sandbox()
    released,           \* context-manager exits of the sandbox
    calls,              \* sandbox calls issued so far, in order
    mkdir_result,       \* generate_code: what the mkdir command returned
    cmd_idx,            \* index of the next command of _install_aider
    stdout_buffer,      \* _run_aider_prompt: chunks appended by on_stdout
    stderr_buffer,      \* _run_aider_prompt: chunks appended by on_stderr
    aider_exit,         \* exit code of the tool invocation, -1 before it returns
    output,             \* value returned by _run_aider_prompt
    find_result,        \* _get_generated_files: what the find command returned
    file_paths,         \* _get_generated_files: lines of the find output
    fidx,               \* _get_generated_files: index of the next line
    files_dict,         \* _get_generated_files: mapping built so far
    read_log,           \* outcome of every sandbox.files.read, in order
    thrown,             \* the failure a sandbox call raised (stage, message)
    result,             \* the CodeGenerationResult returned
    prompt,             \* the prompt argument of generate_code
    prompt_data,        \* the bytes written to the prompt file, if any
    install_results,    \* how each command of _install_aider ended, in order
    delivered,          \* chunks the sandbox delivered to the callbacks, in order
    printed,            \* what on_stdout / on_stderr printed, in order
    \* ---- preview_directory (previewer.py) ----
    ppc,                \* position inside preview_directory
    files,              \* load_files_from_directory result (ordered keys)
    preview_type,       \* the preview_type argument
    sandbox,            \* the local variable sandbox is set (not None)
    copy_idx,           \* index of the next file to copy
    pcalls,             \* sandbox calls issued by the previewer, in order
    kills,              \* completed or attempted sandbox.kill() calls
    server_type,        \* start_live_preview: preview_type after detection
    pip_idx,            \* _install_with_pip: index of the next basic dependency
    detected_type,      \* start_live_preview: what detect_server_type returned
    slp_log,            \* calls start_live_preview issued, with how each ended
    host,               \* start_live_preview: what sandbox.get_host returned
    slp_return,         \* how start_live_preview ended
    preview_url,        \* value returned by start_live_preview
    kill_result,        \* outcome of the last sandbox.kill()
    interrupted,        \* where a KeyboardInterrupt was delivered
    preturn,            \* how preview_directory ended
    \* ---- E2BAiderClient.__init__ (generator.py) ----
    cpc,                \* position inside __init__
    kwargs,             \* the keyword arguments of the constructor
    environ,            \* os.environ when the constructor runs
    client,             \* the attributes of self assigned so far
    ctor_error,         \* the exception __init__ raised, if any
    \* ---- saving generated files (generator.py main) and loading them back
    \* ---- (previewer.py load_files_from_directory) ----
    spc,                \* position inside the save loop and the load
    generated_files,    \* result.generated_files (ordered keys)
    locale_encoding,    \* the encoding write_text uses when none is given
    save_idx,           \* index of the next item to save
    disk,               \* the output directory: path -> directory or file
    walked,             \* paths directory.rglob('*') has yielded
    loaded              \* the mapping load_files_from_directory builds

gvars == <<aider_template_id, gpc, opened, released, calls, mkdir_result,
           cmd_idx, stdout_buffer, stderr_buffer, aider_exit, output,
           find_result, file_paths, fidx, files_dict, read_log, thrown, result,
           prompt, prompt_data, install_results, delivered, printed>>
pvars == <<ppc, files, preview_type, sandbox, copy_idx, pcalls, kills,
           server_type, pip_idx, detected_type, slp_log, host, slp_return,
           preview_url, kill_result, interrupted, preturn>>
cvars == <<cpc, kwargs, environ, client, ctor_error>>
svars == <<spc, generated_files, locale_encoding, save_idx, disk, walked, loaded>>
vars == <<gvars, pvars, cvars, svars>>

----------------------------------------------------------------------------
(* Bounds of the model *)

\* longest find listing the sandbox returns
MaxFiles == 2
\* most chunks the sandbox delivers during the tool invocation, both streams
\* together
MaxChunks == 2
\* largest exit code a command returns
MaxExit == 2

----------------------------------------------------------------------------
(* Text helpers *)

\* Optional[str]: None, or a value
None == [set |-> FALSE]
Some(s) == [set |-> TRUE, val |-> s]

StartsWith(s, p) == Len(s) >= Len(p) /\ SubSeq(s, 1, Len(p)) = p

\* some contiguous run of s equals p
Contains(s, p) ==
    \E i \in 0..(Len(s) - Len(p)) : SubSeq(s, i + 1, i + Len(p)) = p

\* Python str.replace(old, ''): every non-overlapping occurrence, left to right
RECURSIVE Replace(_, _)
Replace(s, old) ==
    IF Len(s) < Len(old) THEN s
    ELSE IF SubSeq(s, 1, Len(old)) = old
         THEN Replace(SubSeq(s, Len(old) + 1, Len(s)), old)
         ELSE <<Head(s)>> \o Replace(Tail(s), old)

\* mutant of Join: the chunks are joined last to first
RECURSIVE JoinReversed(_)
JoinReversed(buf) ==
    IF buf = <<>> THEN <<>> ELSE JoinReversed(Tail(buf)) \o Head(buf)

\* ''.join(buffer) for a list of chunks, each chunk a text
RECURSIVE Join(_)
Join(buf) == IF buf = <<>> THEN <<>> ELSE Head(buf) \o Join(Tail(buf))

Digit(d) == <<"0", "1", "2", "3", "4", "5", "6", "7", "8", "9">>[d + 1]

\* str(n) for n >= 0, as the f-string renders an exit code
RECURSIVE IntStr(_)
IntStr(n) == IF n < 10 THEN <<Digit(n)>>
             ELSE IntStr(n \div 10) \o <<Digit(n % 10)>>

\* d[k] = v on a dict
Put(d, k, v) == [x \in (DOMAIN d) \cup {k} |-> IF x = k THEN v ELSE d[x]]
EmptyDict == <<>>

----------------------------------------------------------------------------
(* What the sandbox can answer *)

\* messages of failures raised by sandbox calls, and stderr texts
Msgs == {<<"timeout">>, <<"denied">>}
\* chunks of tool output: the tool numbers its lines, so the k-th chunk of a
\* stream differs from every other chunk
OutChunks == { <<"out", Digit(k)>> : k \in 1..MaxChunks }
ErrChunks == { <<"err", Digit(k)>> : k \in 1..MaxChunks }
\* prompts a caller passes: plain text, and text with quotes and a newline
Prompts == { <<"make a page">>, <<"it's ", "\n", "\"quoted\"">> }
ExitCodes == 0..MaxExit

project_dir == <<"/", "tmp", "/", "project">>
prompt_file == project_dir \o <<"/", ".aider_prompt.txt">>

\* relative names the tool may have left under project_dir
RelNames == { <<"a">>,
              <<"a", "b">>,
              <<"a", "/", "tmp", "/", "project", "/", "b">>,
              <<".aider_prompt.txt">>,
              <<".aider_prompt.txt", ".bak">>,
              <<".aider.input.history">>,
              <<".aider.chat.history.md">> }
\* lines of `find project_dir -type f`: absolute paths under project_dir
ListedPaths == { project_dir \o <<"/">> \o r : r \in RelNames }

IsInjective(s) == \A i, j \in DOMAIN s : s[i] = s[j] => i = j
\* find prints every file once, in directory order
Listings == UNION { { s \in [1..n -> ListedPaths] : IsInjective(s) } : n \in 0..MaxFiles }


\* a finished command: exit code and stderr (a failing command says why on
\* stderr); or a raised failure (a timeout, a transport error) with its message
RunOutcomes == [kind : {"exit"}, exit_code : {0}, stderr : {<<>>}]
                   \cup [kind : {"exit"}, exit_code : ExitCodes \ {0}, stderr : Msgs]
                   \cup [kind : {"raise"}, msg : Msgs]
\* how a command ended: "ok" (exit code 0), "fail" (non-zero exit code) or
\* "raise"
OutKind(o) == IF o.kind = "raise" THEN "raise"
              ELSE IF o.exit_code # 0 THEN "fail" ELSE "ok"
\* sandbox.files.write / sandbox.files.read: done, or a raised failure
IoOutcomes == [kind : {"ok"}] \cup [kind : {"raise"}, msg : Msgs]

\* the bytes the sandbox holds for a path
ContentOf(path) == <<"content:">> \o path

RunCall(cmd) == [op |-> "run", arg |-> cmd]
WriteCall(path) == [op |-> "write", arg |-> path]
ReadCall(path) == [op |-> "read", arg |-> path]

----------------------------------------------------------------------------
(* E2BAiderClient.generate_code and its helpers (generator.py) *)

\* mutant of FailureResult: the failure result carries no error_message
FailureResultNoMessage(e) ==
    [success |-> FALSE, output |-> <<>>, generated_files |-> EmptyDict,
     error_message |-> None]

FailureResult(e) ==
    [success |-> FALSE, output |-> <<>>, generated_files |-> EmptyDict,
     error_message |-> Some(e)]

SuccessResult(out, gf) ==
    [success |-> TRUE, output |-> out, generated_files |-> gf,
     error_message |-> None]

NoResult == [success |-> FALSE, output |-> <<"<pending>">>,
             generated_files |-> EmptyDict, error_message |-> None]

NoThrow == [stage |-> "none", msg |-> <<>>]
\* a command that has not returned
NotRun == [kind |-> "none", exit_code |-> -1, stderr |-> <<>>]

\* leaving `with self.Sandbox() as sandbox:` runs the context manager's exit
ExitWith(n) == n + 1

\* mutant of Except: the failure path returns without releasing the sandbox
ExceptLeak(e) ==
    /\ released' = released
    /\ result' = [success |-> FALSE, output |-> <<>>,
                  generated_files |-> EmptyDict, error_message |-> Some(e)]
    /\ gpc' = "done"

\* an exception with message e leaves the with block and is caught by
\* `except Exception as e`, which returns the failure result
Except(e) ==
    /\ released' = ExitWith(released)
    /\ result' = FailureResult(e)
    /\ gpc' = "done"

\* mutant of Raise: the handler reports a wrapped message, not the failure's own
RaiseWrapped(stage, m) ==
    /\ thrown' = [stage |-> stage, msg |-> m]
    /\ Except(<<"Sandbox error: ">> \o m)

\* a sandbox call raised: the failure propagates to `except Exception`
Raise(stage, m) ==
    /\ thrown' = [stage |-> stage, msg |-> m]
    /\ Except(m)

mkdir_cmd == <<"mkdir -p '">> \o project_dir \o <<"'">>
install_commands == << <<"pip install aider-chat">>, <<"pip install openai">> >>
verify_cmd == <<"which aider">>
find_cmd == <<"find '">> \o project_dir \o <<"' -type f">>

\* mutant of aider_cmd: the prompt is passed inline with --message
aider_cmd_inline ==
    <<"aider --model '", "gpt-4", "' ">>
        \o <<"--openai-api-key '", "<key>", "' ">>
        \o <<"--message '">> \o prompt \o <<"' ", "--no-git ", "--yes">>

\* aider_cmd as _run_aider_prompt builds it (no openai_api_base configured)
aider_cmd ==
    <<"aider --model '", "gpt-4", "' ">>
        \o <<"--openai-api-key '", "<key>", "' ">>
        \o <<"--message-file '">> \o prompt_file \o <<"' ", "--no-git ", "--yes">>

\* mutant of FormatOutput: the exit code is left out of the output
FormatOutputNoCode(out_buf, err_buf, code) ==
    <<"STDOUT:\n">> \o Join(out_buf) \o <<"\nSTDERR:\n">> \o Join(err_buf)

\* the value _run_aider_prompt returns
FormatOutput(out_buf, err_buf, code) ==
    <<"STDOUT:\n">> \o Join(out_buf) \o <<"\nSTDERR:\n">> \o Join(err_buf)
        \o <<"\n", "Return code: ">> \o IntStr(code)

\* find_result.stdout.strip().split('\n'): an empty output is one blank line
SplitLines(lines) == IF lines = <<>> THEN << <<>> >> ELSE lines

RelPath(file_path) == Replace(file_path, project_dir \o <<"/">>)

skip_files == { <<".aider.input.history">>, <<".aider.chat.history.md">> }
\* mutant of IsSkipped: the prompt file is not filtered
IsSkippedHistoryOnly(rel_path) == rel_path \in skip_files

IsSkipped(rel_path) ==
    StartsWith(rel_path, <<".aider_prompt.txt">>) \/ rel_path \in skip_files

ReadPlaceholder(m) == <<"Error reading file: ">> \o m
\* mutant of ListError: a failed listing yields the empty mapping
ListErrorEmpty(stderr) == EmptyDict

ListError(stderr) == [k \in { <<"error">> } |-> <<"Failed to list files: ">> \o stderr]

CreateSandbox ==
    /\ gpc = "start"
    /\ \/ /\ opened' = opened + 1
          /\ gpc' = "mkdir"
          /\ UNCHANGED <<thrown, result>>
       \/ \E m \in Msgs :
            /\ thrown' = [stage |-> "create", msg |-> m]
            /\ result' = FailureResult(m)
            /\ gpc' = "done"
            /\ UNCHANGED opened
    /\ UNCHANGED <<mkdir_result, find_result, aider_template_id, released, calls, cmd_idx, stdout_buffer,
                   stderr_buffer, aider_exit, output, file_paths, fidx,
                   files_dict, read_log>>
    /\ UNCHANGED <<prompt, prompt_data, install_results, delivered, printed>>
    /\ UNCHANGED <<pvars, cvars, svars>>

\* mutant of Mkdir: the exit code of mkdir is not looked at
MkdirUnchecked ==
    /\ gpc = "mkdir"
    /\ calls' = Append(calls, RunCall(mkdir_cmd))
    /\ \E o \in RunOutcomes :
         IF o.kind = "raise" THEN Raise("mkdir", o.msg) /\ UNCHANGED mkdir_result
         ELSE /\ mkdir_result' = o
              /\ gpc' = IF aider_template_id THEN "prompt" ELSE "install"
              /\ UNCHANGED <<released, result, thrown>>
    /\ UNCHANGED <<find_result, aider_template_id, opened, cmd_idx, stdout_buffer,
                   stderr_buffer, aider_exit, output, file_paths, fidx,
                   files_dict, read_log>>
    /\ UNCHANGED <<prompt, prompt_data, install_results, delivered, printed>>
    /\ UNCHANGED <<pvars, cvars, svars>>

Mkdir ==
    /\ gpc = "mkdir"
    /\ calls' = Append(calls, RunCall(mkdir_cmd))
    /\ \E o \in RunOutcomes :
         IF o.kind = "raise" THEN Raise("mkdir", o.msg) /\ UNCHANGED mkdir_result
         ELSE /\ mkdir_result' = o
              /\ IF o.exit_code # 0
                 THEN /\ Except(<<"Failed to create project directory: ">> \o o.stderr)
                      /\ UNCHANGED thrown
                 ELSE /\ gpc' = IF aider_template_id THEN "prompt" ELSE "install"
                      /\ UNCHANGED <<released, result, thrown>>
    /\ UNCHANGED <<find_result, aider_template_id, opened, cmd_idx, stdout_buffer,
                   stderr_buffer, aider_exit, output, file_paths, fidx,
                   files_dict, read_log>>
    /\ UNCHANGED <<prompt, prompt_data, install_results, delivered, printed>>
    /\ UNCHANGED <<pvars, cvars, svars>>

\* mutant of InstallAider: the exit code of an install command is not looked at
InstallAiderUnchecked ==
    /\ gpc = "install"
    /\ cmd_idx <= Len(install_commands)
    /\ LET cmd == install_commands[cmd_idx] IN
       /\ calls' = Append(calls, RunCall(cmd))
       /\ \E o \in RunOutcomes :
            /\ install_results' = Append(install_results, OutKind(o))
            /\ IF o.kind = "raise" THEN Raise("install", o.msg) /\ UNCHANGED cmd_idx
               ELSE /\ cmd_idx' = cmd_idx + 1
                    /\ UNCHANGED <<gpc, released, result, thrown>>
    /\ UNCHANGED <<mkdir_result, find_result, aider_template_id, opened, stdout_buffer, stderr_buffer,
                   aider_exit, output, file_paths, fidx, files_dict, read_log>>
    /\ UNCHANGED <<prompt, prompt_data, delivered, printed>>
    /\ UNCHANGED <<pvars, cvars, svars>>

\* one iteration of `for cmd in install_commands`
InstallAider ==
    /\ gpc = "install"
    /\ cmd_idx <= Len(install_commands)
    /\ LET cmd == install_commands[cmd_idx] IN
       /\ calls' = Append(calls, RunCall(cmd))
       /\ \E o \in RunOutcomes :
            /\ install_results' = Append(install_results, OutKind(o))
            /\ IF o.kind = "raise" THEN Raise("install", o.msg) /\ UNCHANGED cmd_idx
               ELSE IF o.exit_code # 0
                    THEN /\ Except(<<"Failed to install aider with command \"">>
                                     \o cmd \o <<"\": ">> \o o.stderr)
                         /\ UNCHANGED <<thrown, cmd_idx>>
                    ELSE /\ cmd_idx' = cmd_idx + 1
                         /\ UNCHANGED <<gpc, released, result, thrown>>
    /\ UNCHANGED <<mkdir_result, find_result, aider_template_id, opened, stdout_buffer, stderr_buffer,
                   aider_exit, output, file_paths, fidx, files_dict, read_log>>
    /\ UNCHANGED <<prompt, prompt_data, delivered, printed>>
    /\ UNCHANGED <<pvars, cvars, svars>>

\* `which aider` after the loop
VerifyAider ==
    /\ gpc = "install"
    /\ cmd_idx > Len(install_commands)
    /\ calls' = Append(calls, RunCall(verify_cmd))
    /\ \E o \in RunOutcomes :
         /\ install_results' = Append(install_results, OutKind(o))
         /\ IF o.kind = "raise" THEN Raise("install", o.msg)
            ELSE IF o.exit_code # 0
                 THEN /\ Except(<<"Aider not found after installation: ">> \o o.stderr)
                      /\ UNCHANGED thrown
                 ELSE /\ gpc' = "prompt"
                      /\ UNCHANGED <<released, result, thrown>>
    /\ UNCHANGED <<mkdir_result, find_result, aider_template_id, opened, cmd_idx, stdout_buffer,
                   stderr_buffer, aider_exit, output, file_paths, fidx,
                   files_dict, read_log>>
    /\ UNCHANGED <<prompt, prompt_data, delivered, printed>>
    /\ UNCHANGED <<pvars, cvars, svars>>

\* prompt.encode('utf-8')
encode(text) == [encoding |-> "utf-8", text |-> text]

\* _run_aider_prompt up to issuing the tool command
WritePrompt ==
    /\ gpc = "prompt"
    /\ \E o \in IoOutcomes :
         IF o.kind = "raise"
         THEN /\ calls' = Append(calls, WriteCall(prompt_file))
              /\ thrown' = [stage |-> "prompt", msg |-> o.msg]
              /\ Except(<<"Failed to write prompt file: ">> \o o.msg)
              /\ UNCHANGED prompt_data
         ELSE /\ calls' = calls \o <<WriteCall(prompt_file), RunCall(aider_cmd)>>
              /\ prompt_data' = Some(encode(prompt))
              /\ gpc' = "tool"
              /\ UNCHANGED <<released, result, thrown>>
    /\ UNCHANGED <<mkdir_result, find_result, aider_template_id, opened, cmd_idx, stdout_buffer,
                   stderr_buffer, aider_exit, output, file_paths, fidx,
                   files_dict, read_log>>
    /\ UNCHANGED <<prompt, install_results, delivered, printed>>
    /\ UNCHANGED <<pvars, cvars, svars>>

\* the sandbox delivers a chunk of standard output while the tool runs
OnStdout ==
    /\ gpc = "tool"
    /\ Len(delivered) < MaxChunks
    /\ \E data \in OutChunks :
         /\ data = <<"out", Digit(Len(stdout_buffer) + 1)>>
         /\ delivered' = Append(delivered, [stream |-> "stdout", data |-> data])
         /\ printed' = Append(printed, data)
         /\ stdout_buffer' = Append(stdout_buffer, data)
    /\ UNCHANGED <<mkdir_result, find_result, aider_template_id, gpc, opened, released, calls, cmd_idx,
                   stderr_buffer, aider_exit, output, file_paths, fidx,
                   files_dict, read_log, thrown, result>>
    /\ UNCHANGED <<prompt, prompt_data, install_results>>
    /\ UNCHANGED <<pvars, cvars, svars>>

\* the sandbox delivers a chunk of standard error while the tool runs
OnStderr ==
    /\ gpc = "tool"
    /\ Len(delivered) < MaxChunks
    /\ \E data \in ErrChunks :
         /\ data = <<"err", Digit(Len(stderr_buffer) + 1)>>
         /\ delivered' = Append(delivered, [stream |-> "stderr", data |-> data])
         /\ printed' = Append(printed, data)
         /\ stderr_buffer' = Append(stderr_buffer, data)
    /\ UNCHANGED <<mkdir_result, find_result, aider_template_id, gpc, opened, released, calls, cmd_idx,
                   stdout_buffer, aider_exit, output, file_paths, fidx,
                   files_dict, read_log, thrown, result>>
    /\ UNCHANGED <<prompt, prompt_data, install_results>>
    /\ UNCHANGED <<pvars, cvars, svars>>

\* sandbox.commands.run(aider_cmd, ...) ends; the rest of _run_aider_prompt
AiderDone ==
    /\ gpc = "tool"
    /\ \E o \in RunOutcomes :
         IF o.kind = "raise"
         THEN Raise("tool", o.msg) /\ UNCHANGED <<aider_exit, output>>
         ELSE /\ aider_exit' = o.exit_code
              /\ output' = FormatOutput(stdout_buffer, stderr_buffer, o.exit_code)
              /\ gpc' = "list"
              /\ UNCHANGED <<released, result, thrown>>
    /\ UNCHANGED <<mkdir_result, find_result, aider_template_id, opened, calls, cmd_idx, stdout_buffer,
                   stderr_buffer, file_paths, fidx, files_dict, read_log>>
    /\ UNCHANGED <<prompt, prompt_data, install_results, delivered, printed>>
    /\ UNCHANGED <<pvars, cvars, svars>>

\* _get_generated_files: the find command
ListFiles ==
    /\ gpc = "list"
    /\ calls' = Append(calls, RunCall(find_cmd))
    /\ \E o \in RunOutcomes :
         IF o.kind = "raise"
         THEN /\ Raise("list", o.msg)
              /\ UNCHANGED <<find_result, file_paths, fidx, files_dict>>
         ELSE /\ find_result' = o
              /\ IF o.exit_code # 0
                 THEN /\ files_dict' = ListError(o.stderr)
                      /\ gpc' = "return"
                      /\ UNCHANGED <<file_paths, fidx, released, result, thrown>>
                 ELSE \E l \in Listings :
                      /\ file_paths' = SplitLines(l)
                      /\ fidx' = 1
                      /\ files_dict' = EmptyDict
                      /\ gpc' = "harvest"
                      /\ UNCHANGED <<released, result, thrown>>
    /\ UNCHANGED <<mkdir_result, aider_template_id, opened, cmd_idx, stdout_buffer,
                   stderr_buffer, aider_exit, output, read_log>>
    /\ UNCHANGED <<prompt, prompt_data, install_results, delivered, printed>>
    /\ UNCHANGED <<pvars, cvars, svars>>

\* _get_generated_files: one iteration of `for file_path in file_paths`
HarvestFile ==
    /\ gpc = "harvest"
    /\ fidx <= Len(file_paths)
    /\ LET file_path == file_paths[fidx]
           rel_path == RelPath(file_path)
       IN  IF file_path = <<>> \/ IsSkipped(rel_path)
           THEN UNCHANGED <<calls, files_dict, read_log>>
           ELSE /\ calls' = Append(calls, ReadCall(file_path))
                /\ \E o \in IoOutcomes :
                     /\ read_log' = Append(read_log, [path |-> file_path, kind |-> o.kind])
                     /\ files_dict' =
                          Put(files_dict, rel_path,
                              IF o.kind = "raise" THEN ReadPlaceholder(o.msg)
                              ELSE ContentOf(file_path))
    /\ fidx' = fidx + 1
    /\ UNCHANGED <<mkdir_result, find_result, aider_template_id, gpc, opened, released, cmd_idx,
                   stdout_buffer, stderr_buffer, aider_exit, output,
                   file_paths, thrown, result>>
    /\ UNCHANGED <<prompt, prompt_data, install_results, delivered, printed>>
    /\ UNCHANGED <<pvars, cvars, svars>>

\* generate_code returns the success result from inside the with block
ReturnSuccess ==
    /\ \/ gpc = "return"
       \/ gpc = "harvest" /\ fidx > Len(file_paths)
    /\ released' = ExitWith(released)
    /\ result' = SuccessResult(output, files_dict)
    /\ gpc' = "done"
    /\ UNCHANGED <<mkdir_result, find_result, aider_template_id, opened, calls, cmd_idx, stdout_buffer,
                   stderr_buffer, aider_exit, output, file_paths, fidx,
                   files_dict, read_log, thrown>>
    /\ UNCHANGED <<prompt, prompt_data, install_results, delivered, printed>>
    /\ UNCHANGED <<pvars, cvars, svars>>

GenInit ==
    /\ aider_template_id \in BOOLEAN
    /\ gpc = "start"
    /\ opened = 0
    /\ released = 0
    /\ calls = <<>>
    /\ mkdir_result = NotRun
    /\ find_result = NotRun
    /\ cmd_idx = 1
    /\ stdout_buffer = <<>>
    /\ stderr_buffer = <<>>
    /\ aider_exit = -1
    /\ output = <<>>
    /\ file_paths = <<>>
    /\ fidx = 1
    /\ files_dict = EmptyDict
    /\ read_log = <<>>
    /\ thrown = NoThrow
    /\ result = NoResult
    /\ prompt \in Prompts
    /\ prompt_data = None
    /\ install_results = <<>>
    /\ delivered = <<>>
    /\ printed = <<>>

GenNext ==
    \/ CreateSandbox
    \/ Mkdir
    \/ InstallAider
    \/ VerifyAider
    \/ WritePrompt
    \/ OnStdout
    \/ OnStderr
    \/ AiderDone
    \/ ListFiles
    \/ HarvestFile
    \/ ReturnSuccess


----------------------------------------------------------------------------
(* previewer.py: detect_server_type, _install_with_pip, start_live_preview, *)
(* preview_directory                                                        *)

\* most files load_files_from_directory returns
MaxLocalFiles == 2

preview_port == 8000
working_dir == <<"/", "tmp", "/", "project">>

EndsWith(s, suf) ==
    Len(s) >= Len(suf) /\ SubSeq(s, Len(s) - Len(suf) + 1, Len(s)) = suf

\* str.lower() on a text
LowerAtom(a) == CASE a = "FastAPI" -> "fastapi"
                  [] a = "Uvicorn" -> "uvicorn"
                  [] OTHER -> a
Lower(s) == [i \in DOMAIN s |-> LowerAtom(s[i])]

\* files of a project directory: name and content
LocalFiles ==
    { [name |-> <<"main", ".py">>, content |-> <<"from ", "FastAPI", " import">>],
      [name |-> <<"app", ".py">>, content |-> <<"print">>],
      [name |-> <<"server", ".py">>, content |-> <<"# ", "Uvicorn">>],
      [name |-> <<"package", ".json">>,
       content |-> <<"{", "\"scripts\": {", "\"dev\"", ": \"vite\"", "}", "}">>],
      [name |-> <<"package", ".json">>,
       content |-> <<"{", "\"name\": ", "\"dev\"", "}">>],
      [name |-> <<"package", ".json">>, content |-> <<"{", "}">>],
      [name |-> <<"poetry", ".lock">>, content |-> <<>>],
      [name |-> <<"requirements", ".txt">>, content |-> <<"fastapi">>],
      [name |-> <<"static", "/", "index", ".html">>, content |-> <<"<html>">>],
      [name |-> <<"style", ".css">>, content |-> <<"body {}">>],
      [name |-> <<"notes", ".txt">>, content |-> <<"hello">>] }

\* a dict as the ordered sequence of its items (insertion order, unique keys)
FileSets ==
    UNION { { s \in [1..n -> LocalFiles] :
                \A i, j \in 1..n : s[i].name = s[j].name => i = j }
            : n \in 0..MaxLocalFiles }

PreviewTypes == {"auto", "static", "nodejs", "fastapi", "flask"}
supported_types == {"static", "nodejs", "fastapi"}
Hosts == { <<"8000-sbx.e2b.dev">> }

HasKey(fs, k) == \E i \in DOMAIN fs : fs[i].name = k
\* files.get(k, '')
Get(fs, k) == IF HasKey(fs, k)
              THEN fs[CHOOSE i \in DOMAIN fs : fs[i].name = k].content
              ELSE <<>>

\* mutant of detect_server_type: package.json is looked for before FastAPI
detect_package_json_first(fs) ==
    IF fs = <<>> THEN "None"
    ELSE IF HasKey(fs, <<"package", ".json">>) THEN "nodejs"
    ELSE IF \E i \in DOMAIN fs :
               /\ EndsWith(fs[i].name, <<".py">>)
               /\ \/ Contains(Lower(fs[i].content), <<"fastapi">>)
                  \/ Contains(Lower(fs[i].content), <<"uvicorn">>)
         THEN "fastapi"
    ELSE IF \E i \in DOMAIN fs :
               \E ext \in {".html", ".htm", ".css", ".js", ".jsx", ".ts", ".tsx"} :
                   EndsWith(fs[i].name, <<ext>>)
         THEN "static"
    ELSE "None"

detect_server_type(fs) ==
    IF fs = <<>> THEN "None"
    ELSE IF \E i \in DOMAIN fs :
               /\ EndsWith(fs[i].name, <<".py">>)
               /\ fs[i].content # <<>>
               /\ \/ Contains(Lower(fs[i].content), <<"fastapi">>)
                  \/ Contains(Lower(fs[i].content), <<"uvicorn">>)
         THEN "fastapi"
    ELSE IF HasKey(fs, <<"package", ".json">>) THEN "nodejs"
    ELSE IF \E i \in DOMAIN fs :
               EndsWith(fs[i].name, <<".html">>) \/ EndsWith(fs[i].name, <<".htm">>)
         THEN "static"
    ELSE IF \E i \in DOMAIN fs :
               \E ext \in {".css", ".js", ".jsx", ".ts", ".tsx"} :
                   EndsWith(fs[i].name, <<ext>>)
         THEN "static"
    ELSE "None"

\* mutant of EffectiveType: a detected type overrides an explicit one
EffectiveTypeDetectFirst(fs, pt) ==
    IF detect_server_type(fs) # "None" THEN detect_server_type(fs)
    ELSE IF pt = "auto" THEN "static" ELSE pt

\* preview_type after the `if preview_type == 'auto'` block
EffectiveType(fs, pt) ==
    IF pt = "auto"
    THEN IF detect_server_type(fs) # "None" THEN detect_server_type(fs) ELSE "static"
    ELSE pt

InDir(cmd) == <<"cd ">> \o working_dir \o <<" && ">> \o cmd

\* next(f for f in files.keys() if f in [...], 'main.py'): first key in dict order
main_file(fs) ==
    LET cands == { <<"main", ".py">>, <<"app", ".py">>, <<"server", ".py">> }
        hits == { i \in DOMAIN fs : fs[i].name \in cands }
    IN  IF hits = {} THEN <<"main", ".py">>
        ELSE fs[CHOOSE i \in hits : \A j \in hits : i <= j].name

\* the start command for a supported server type
StartCommand(fs, st) ==
    IF st = "static" THEN <<"python -m http.server ">> \o IntStr(preview_port)
    ELSE IF st = "nodejs"
         THEN IF Contains(Get(fs, <<"package", ".json">>), <<"\"dev\"">>)
              THEN <<"npm run dev">> ELSE <<"npm start">>
    ELSE (IF HasKey(fs, <<"poetry", ".lock">>) THEN <<"poetry run ">> ELSE <<>>)
            \o <<"fastapi dev ">> \o main_file(fs)
            \o <<" --host 0.0.0.0 --port ">> \o IntStr(preview_port)

\* '/'.join(file_path.split('/')[:-1])
RECURSIVE DirName(_)
DirName(path) ==
    IF path = <<>> THEN <<>>
    ELSE IF path[Len(path)] = "/" THEN SubSeq(path, 1, Len(path) - 1)
    ELSE DirName(SubSeq(path, 1, Len(path) - 1))

\* mutant of PRunCall: the background flag is dropped
PRunCallForeground(cmd, bg) == [op |-> "run", arg |-> cmd, background |-> FALSE]

PRunCall(cmd, bg) ==[op |-> "run", arg |-> cmd, background |-> bg]
PWriteCall(path) == [op |-> "write", arg |-> path, background |-> FALSE]
PHostCall(port) == [op |-> "get_host", arg |-> IntStr(port), background |-> FALSE]

KillOutcomes == {"ok", "raise"}

\* preview_directory returns value v
PReturn(v) ==
    /\ ppc' = "ended"
    /\ preturn' = v

\* `except Exception` of preview_directory: kill the sandbox if one was made
Cleanup ==
    /\ IF sandbox
       THEN /\ kills' = kills + 1
            /\ \E k \in KillOutcomes : kill_result' = k
       ELSE UNCHANGED <<kills, kill_result>>
    /\ PReturn(None)

\* start_live_preview returned url: the tail of preview_directory's try block
AfterPreview(url) ==
    /\ preview_url' = url
    /\ IF url.set
       THEN ppc' = "keepalive" /\ UNCHANGED preturn
       ELSE PReturn(url)

\* mutant of InterruptHandler: a failing kill() is not caught, so it reaches
\* the outer `except Exception`, which returns None
InterruptHandlerPropagate(k) ==
    /\ kills' = kills + (IF k = "raise" THEN 2 ELSE 1)
    /\ kill_result' = k
    /\ PReturn(IF k = "raise" THEN None ELSE preview_url)

\* the KeyboardInterrupt handler of the keep-alive loop, kill() ending as k
InterruptHandler(k) ==
    /\ kills' = kills + 1
    /\ kill_result' = k
    /\ PReturn(preview_url)

\* an entry of slp_log: a call of start_live_preview and how it ended: "ok"
\* (exit code 0, or a value), "fail" (non-zero exit code) or "raise"
SlpEntry(call, out) == [call |-> call, out |-> out]

\* start_live_preview returns url to preview_directory
SlpReturn(url) ==
    /\ slp_return' = "returned"
    /\ AfterPreview(url)

\* mutant of SlpExcept: no except clause, the error reaches preview_directory
SlpExceptPropagate ==
    /\ slp_return' = "raised"
    /\ preview_url' = preview_url
    /\ Cleanup

\* `except Exception as e` of start_live_preview: report and return None
SlpExcept ==
    /\ kills' = kills
    /\ kill_result' = kill_result
    /\ SlpReturn(None)

\* load_files_from_directory, the empty check and Sandbox.create
CreatePreviewSandbox ==
    /\ ppc = "begin"
    /\ IF files = <<>>
       THEN PReturn(None) /\ UNCHANGED <<sandbox, kills, kill_result>>
       ELSE \/ /\ sandbox' = TRUE
               /\ ppc' = "mkdir"
               /\ UNCHANGED <<preturn, kills, kill_result>>
            \/ Cleanup /\ UNCHANGED sandbox
    /\ UNCHANGED <<files, preview_type, copy_idx, pcalls, server_type, pip_idx,
                   detected_type, slp_log, host, slp_return, preview_url,
                   interrupted>>
    /\ UNCHANGED <<gvars, cvars, svars>>

\* sandbox.commands.run(mkdir -p working_dir); the exit code is not looked at
PreviewMkdir ==
    /\ ppc = "mkdir"
    /\ pcalls' = Append(pcalls, PRunCall(<<"mkdir -p '">> \o working_dir \o <<"'">>, FALSE))
    /\ \/ ppc' = "copy" /\ UNCHANGED <<preturn, kills, kill_result>>
       \/ Cleanup
    /\ UNCHANGED <<files, preview_type, sandbox, copy_idx, server_type, pip_idx,
                   detected_type, slp_log, host, slp_return, preview_url,
                   interrupted>>
    /\ UNCHANGED <<gvars, cvars, svars>>

\* one iteration of `for filename, content in files.items()`
CopyFile ==
    /\ ppc = "copy"
    /\ copy_idx <= Len(files)
    /\ LET file_path == working_dir \o <<"/">> \o files[copy_idx].name
           mk == PRunCall(<<"mkdir -p '">> \o DirName(file_path) \o <<"'">>, FALSE)
       IN  \/ /\ pcalls' = pcalls \o <<mk, PWriteCall(file_path)>>
              /\ copy_idx' = copy_idx + 1
              /\ UNCHANGED <<ppc, preturn, kills, kill_result>>
           \/ /\ pcalls' = Append(pcalls, mk)
              /\ Cleanup
              /\ UNCHANGED copy_idx
           \/ /\ pcalls' = pcalls \o <<mk, PWriteCall(file_path)>>
              /\ Cleanup
              /\ UNCHANGED copy_idx
    /\ UNCHANGED <<files, preview_type, sandbox, server_type, pip_idx,
                   detected_type, slp_log, host, slp_return, preview_url,
                   interrupted>>
    /\ UNCHANGED <<gvars, cvars, svars>>

\* start_live_preview: detection and validation of the preview type
StartLivePreview ==
    /\ ppc = "copy"
    /\ copy_idx > Len(files)
    /\ detected_type' = IF preview_type = "auto" THEN detect_server_type(files)
                        ELSE detected_type
    /\ LET st == EffectiveType(files, preview_type) IN
       /\ server_type' = st
       /\ IF st \notin supported_types
          THEN SlpReturn(None)
          ELSE /\ ppc' = CASE st = "nodejs" -> "npm"
                           [] st = "fastapi" ->
                                IF HasKey(files, <<"poetry", ".lock">>)
                                THEN "poetry" ELSE "pip"
                           [] OTHER -> "launch"
               /\ UNCHANGED <<preview_url, preturn, slp_return>>
    /\ pip_idx' = 1
    /\ UNCHANGED <<files, preview_type, sandbox, copy_idx, pcalls, kills,
                   slp_log, host, kill_result, interrupted>>
    /\ UNCHANGED <<gvars, cvars, svars>>

\* nodejs: npm install
NpmInstall ==
    /\ ppc = "npm"
    /\ LET call == PRunCall(InDir(<<"npm install">>), FALSE) IN
       /\ pcalls' = Append(pcalls, call)
       /\ \E o \in RunOutcomes :
            /\ slp_log' = Append(slp_log, SlpEntry(call, OutKind(o)))
            /\ IF o.kind = "raise" THEN SlpExcept
               ELSE /\ ppc' = IF o.exit_code # 0 THEN "npm_retry" ELSE "launch"
                    /\ UNCHANGED <<preview_url, preturn, slp_return, kills,
                                   kill_result>>
    /\ UNCHANGED <<files, preview_type, sandbox, copy_idx, server_type,
                   pip_idx, detected_type, host, interrupted>>
    /\ UNCHANGED <<gvars, cvars, svars>>

\* mutant of NpmRetry: a failed retry goes on to the start command
NpmRetryLaunchAnyway ==
    /\ ppc = "npm_retry"
    /\ LET call == PRunCall(InDir(<<"npm install --no-optional">>), FALSE) IN
       /\ pcalls' = Append(pcalls, call)
       /\ \E o \in RunOutcomes :
            /\ slp_log' = Append(slp_log, SlpEntry(call, OutKind(o)))
            /\ IF o.kind = "raise" THEN SlpExcept
               ELSE /\ ppc' = "launch"
                    /\ UNCHANGED <<preview_url, preturn, slp_return, kills,
                                   kill_result>>
    /\ UNCHANGED <<files, preview_type, sandbox, copy_idx, server_type,
                   pip_idx, detected_type, host, interrupted>>
    /\ UNCHANGED <<gvars, cvars, svars>>

\* nodejs: npm install --no-optional after a failed npm install
NpmRetry ==
    /\ ppc = "npm_retry"
    /\ LET call == PRunCall(InDir(<<"npm install --no-optional">>), FALSE) IN
       /\ pcalls' = Append(pcalls, call)
       /\ \E o \in RunOutcomes :
            /\ slp_log' = Append(slp_log, SlpEntry(call, OutKind(o)))
            /\ IF o.kind = "raise" THEN SlpExcept
               ELSE IF o.exit_code # 0
                    THEN SlpReturn(None) /\ UNCHANGED <<kills, kill_result>>
                    ELSE /\ ppc' = "launch"
                         /\ UNCHANGED <<preview_url, preturn, slp_return, kills,
                                        kill_result>>
    /\ UNCHANGED <<files, preview_type, sandbox, copy_idx, server_type,
                   pip_idx, detected_type, host, interrupted>>
    /\ UNCHANGED <<gvars, cvars, svars>>

\* fastapi with poetry.lock: poetry install
PoetryInstall ==
    /\ ppc = "poetry"
    /\ LET call == PRunCall(InDir(<<"poetry install">>), FALSE) IN
       /\ pcalls' = Append(pcalls, call)
       /\ \E o \in RunOutcomes :
            /\ slp_log' = Append(slp_log, SlpEntry(call, OutKind(o)))
            /\ IF o.kind = "raise" THEN SlpExcept
               ELSE /\ ppc' = IF o.exit_code # 0 THEN "pip" ELSE "launch"
                    /\ UNCHANGED <<preview_url, preturn, slp_return, kills,
                                   kill_result>>
    /\ UNCHANGED <<files, preview_type, sandbox, copy_idx, server_type,
                   pip_idx, detected_type, host, interrupted>>
    /\ UNCHANGED <<gvars, cvars, svars>>

\* _install_with_pip with requirements.txt; it returns None whatever the exit
\* code, and the caller goes on to the server start-up on None
PipRequirements ==
    /\ ppc = "pip"
    /\ HasKey(files, <<"requirements", ".txt">>)
    /\ LET call == PRunCall(InDir(<<"pip install -r requirements.txt">>), FALSE) IN
       /\ pcalls' = Append(pcalls, call)
       /\ \E o \in RunOutcomes :
            /\ slp_log' = Append(slp_log, SlpEntry(call, OutKind(o)))
            /\ IF o.kind = "raise" THEN SlpExcept
               ELSE /\ ppc' = "launch"
                    /\ UNCHANGED <<preview_url, preturn, slp_return, kills,
                                   kill_result>>
    /\ UNCHANGED <<files, preview_type, sandbox, copy_idx, server_type,
                   pip_idx, detected_type, host, interrupted>>
    /\ UNCHANGED <<gvars, cvars, svars>>

\* the basic dependencies in the other order
basic_deps_swapped == << <<"uvicorn[standard]">>, <<"fastapi">> >>
\* basic_deps of _install_with_pip
basic_deps == << <<"fastapi">>, <<"uvicorn[standard]">> >>

\* _install_with_pip without requirements.txt: one iteration of
\* `for dep in basic_deps`; a non-zero exit returns None, as the end does
PipBasicDep ==
    /\ ppc = "pip"
    /\ ~HasKey(files, <<"requirements", ".txt">>)
    /\ LET call == PRunCall(InDir(<<"pip install ">> \o basic_deps[pip_idx]), FALSE) IN
       /\ pcalls' = Append(pcalls, call)
       /\ \E o \in RunOutcomes :
            /\ slp_log' = Append(slp_log, SlpEntry(call, OutKind(o)))
            /\ IF o.kind = "raise" THEN SlpExcept /\ UNCHANGED pip_idx
               ELSE IF o.exit_code # 0 \/ pip_idx = Len(basic_deps)
                    THEN /\ ppc' = "launch"
                         /\ UNCHANGED <<preview_url, preturn, slp_return, kills,
                                        kill_result, pip_idx>>
                    ELSE /\ pip_idx' = pip_idx + 1
                         /\ UNCHANGED <<ppc, preview_url, preturn, slp_return,
                                        kills, kill_result>>
    /\ UNCHANGED <<files, preview_type, sandbox, copy_idx, server_type,
                   detected_type, host, interrupted>>
    /\ UNCHANGED <<gvars, cvars, svars>>

\* the start command, issued with background=True
Launch ==
    /\ ppc = "launch"
    /\ LET call == PRunCall(InDir(StartCommand(files, server_type)), TRUE) IN
       /\ pcalls' = Append(pcalls, call)
       /\ \/ /\ slp_log' = Append(slp_log, SlpEntry(call, "ok"))
             /\ ppc' = "host"
             /\ UNCHANGED <<preview_url, preturn, slp_return, kills, kill_result>>
          \/ /\ slp_log' = Append(slp_log, SlpEntry(call, "raise"))
             /\ SlpExcept
    /\ UNCHANGED <<files, preview_type, sandbox, copy_idx, server_type,
                   pip_idx, detected_type, host, interrupted>>
    /\ UNCHANGED <<gvars, cvars, svars>>

\* sandbox.get_host(preview_port) and the return of the URL; a failing lookup
\* is caught by the inner `except Exception`, which returns None
GetHost ==
    /\ ppc = "host"
    /\ LET call == PHostCall(preview_port) IN
       /\ pcalls' = Append(pcalls, call)
       /\ \/ \E h \in Hosts :
               /\ host' = Some(h)
               /\ slp_log' = Append(slp_log, SlpEntry(call, "ok"))
               /\ SlpReturn(Some(<<"https://">> \o h))
          \/ /\ slp_log' = Append(slp_log, SlpEntry(call, "raise"))
             /\ SlpReturn(None)
             /\ UNCHANGED host
    /\ UNCHANGED <<files, preview_type, sandbox, copy_idx, kills, server_type,
                   pip_idx, detected_type, kill_result, interrupted>>
    /\ UNCHANGED <<gvars, cvars, svars>>

\* KeyboardInterrupt inside `while True: time.sleep(1)`
KeepAliveInterrupt ==
    /\ ppc = "keepalive"
    /\ interrupted' = "keepalive"
    /\ \E k \in KillOutcomes : InterruptHandler(k)
    /\ UNCHANGED <<files, preview_type, sandbox, copy_idx, pcalls, server_type,
                   pip_idx, detected_type, slp_log, host, slp_return,
                   preview_url>>
    /\ UNCHANGED <<gvars, cvars, svars>>

\* KeyboardInterrupt after Sandbox.create and before the keep-alive loop: it is
\* no Exception, so neither except clause catches it and it leaves the function
EarlyInterrupt ==
    /\ sandbox
    /\ ppc \notin {"begin", "keepalive", "ended"}
    /\ interrupted' = ppc
    /\ ppc' = "ended"
    /\ preturn' = [set |-> TRUE, val |-> <<"KeyboardInterrupt">>]
    /\ UNCHANGED <<files, preview_type, sandbox, copy_idx, pcalls, kills,
                   server_type, pip_idx, detected_type, slp_log, host,
                   slp_return, preview_url, kill_result>>
    /\ UNCHANGED <<gvars, cvars, svars>>

\* the locals of preview_directory and start_live_preview before the call
PrevLocals ==
    /\ ppc = "begin"
    /\ sandbox = FALSE
    /\ copy_idx = 1
    /\ pcalls = <<>>
    /\ kills = 0
    /\ server_type = "unset"
    /\ pip_idx = 1
    /\ detected_type = "unset"
    /\ slp_log = <<>>
    /\ host = None
    /\ slp_return = "pending"
    /\ preview_url = None
    /\ kill_result = "none"
    /\ interrupted = "no"
    /\ preturn = None

PrevInit ==
    /\ files \in FileSets
    /\ preview_type \in PreviewTypes
    /\ PrevLocals

PrevNext ==
    \/ CreatePreviewSandbox
    \/ PreviewMkdir
    \/ CopyFile
    \/ StartLivePreview
    \/ NpmInstall
    \/ NpmRetry
    \/ PoetryInstall
    \/ PipRequirements
    \/ PipBasicDep
    \/ Launch
    \/ GetHost
    \/ KeepAliveInterrupt
    \/ EarlyInterrupt

\* the previewer at rest, for the other specifications
PrevIdle ==
    /\ files = <<>>
    /\ preview_type = "auto"
    /\ PrevLocals

\* the generator at rest, for the previewer's specification
GenIdle ==
    /\ GenInit
    /\ aider_template_id = FALSE
    /\ prompt = <<"make a page">>

----------------------------------------------------------------------------
(* generator.py: E2BAiderClient.__init__ *)

\* the options that fall back to an environment variable, and that variable
EnvOptions == {"e2b_api_key", "openai_api_key", "openai_api_base",
               "openai_model", "aider_template_id"}
EnvName(opt) == CASE opt = "e2b_api_key" -> "E2B_API_KEY"
                  [] opt = "openai_api_key" -> "OPENAI_API_KEY"
                  [] opt = "openai_api_base" -> "OPENAI_API_BASE"
                  [] opt = "openai_model" -> "OPENAI_MODEL"
                  [] opt = "aider_template_id" -> "AIDER_TEMPLATE_ID"
EnvNames == { EnvName(opt) : opt \in EnvOptions }

\* what a caller passes for an Optional[str] parameter: nothing, '' or a value
ArgValues == {None, Some(<<>>), Some(<<"arg">>)}
\* an environment variable: unset, set to '' or set to a value
EnvValues == {None, Some(<<>>), Some(<<"env">>)}
Templates == { <<"base">>, <<"custom">> }

\* bool(v) for an Optional[str]
Truthy(v) == v.set /\ v.val # <<>>

\* mutant of Or: the right operand wins when it is truthy
OrRightFirst(a, b) == IF Truthy(b) THEN b ELSE a

\* Python `a or b`
Or(a, b) == IF Truthy(a) THEN a ELSE b

\* os.getenv(name, default)
getenv(name, default) == IF environ[name].set THEN environ[name] ELSE default

ValueError(name) ==
    [type |-> "ValueError",
     message |-> <<name, " environment variable is required">>]
ImportError ==
    [type |-> "ImportError",
     message |-> <<"e2b-code-interpreter package not found. ",
                   "Install it with: pip install e2b-code-interpreter">>]
NoError == [type |-> "none", message |-> <<>>]

\* self before any attribute is assigned
NoAttrs == [e2b_api_key |-> None, openai_api_key |-> None,
            openai_api_base |-> None, openai_model |-> None,
            sandbox_template |-> <<>>, aider_template_id |-> None,
            Sandbox |-> "unset"]

\* the six attribute assignments at the top of __init__
ResolveOptions ==
    /\ cpc = "resolve"
    /\ client' = [e2b_api_key |-> Or(kwargs.e2b_api_key, getenv("E2B_API_KEY", None)),
                  openai_api_key |-> Or(kwargs.openai_api_key, getenv("OPENAI_API_KEY", None)),
                  openai_api_base |-> Or(kwargs.openai_api_base, getenv("OPENAI_API_BASE", None)),
                  openai_model |-> Or(kwargs.openai_model,
                                      getenv("OPENAI_MODEL", Some(<<"gpt-4">>))),
                  sandbox_template |-> kwargs.sandbox_template,
                  aider_template_id |-> Or(kwargs.aider_template_id,
                                           getenv("AIDER_TEMPLATE_ID", None)),
                  Sandbox |-> "unset"]
    /\ cpc' = "check"
    /\ UNCHANGED <<kwargs, environ, ctor_error>>
    /\ UNCHANGED <<gvars, pvars, svars>>

\* the two `if not self.<key>: raise ValueError(...)` checks
CheckKeys ==
    /\ cpc = "check"
    /\ IF ~Truthy(client.e2b_api_key)
       THEN ctor_error' = ValueError("E2B_API_KEY") /\ cpc' = "raised"
       ELSE IF ~Truthy(client.openai_api_key)
            THEN ctor_error' = ValueError("OPENAI_API_KEY") /\ cpc' = "raised"
            ELSE cpc' = "import" /\ UNCHANGED ctor_error
    /\ UNCHANGED <<kwargs, environ, client>>
    /\ UNCHANGED <<gvars, pvars, svars>>

\* the import of the SDK and the choice of the sandbox factory
ImportSandbox ==
    /\ cpc = "import"
    /\ \/ /\ client' = [client EXCEPT !.Sandbox =
                           IF Truthy(client.aider_template_id)
                           THEN "create_with_template" ELSE "create"]
          /\ cpc' = "ready"
          /\ UNCHANGED ctor_error
       \/ /\ ctor_error' = ImportError
          /\ cpc' = "raised"
          /\ UNCHANGED client
    /\ UNCHANGED <<kwargs, environ>>
    /\ UNCHANGED <<gvars, pvars, svars>>

CtorInit ==
    /\ cpc = "resolve"
    /\ kwargs \in [e2b_api_key : ArgValues, openai_api_key : ArgValues,
                   openai_api_base : ArgValues, openai_model : ArgValues,
                   sandbox_template : Templates, aider_template_id : ArgValues]
    /\ environ \in [EnvNames -> EnvValues]
    /\ client = NoAttrs
    /\ ctor_error = NoError

CtorNext ==
    \/ ResolveOptions
    \/ CheckKeys
    \/ ImportSandbox

\* no constructor call in progress, for the other specifications
CtorIdle ==
    /\ cpc = "idle"
    /\ kwargs = [e2b_api_key |-> None, openai_api_key |-> None,
                 openai_api_base |-> None, openai_model |-> None,
                 sandbox_template |-> <<"base">>, aider_template_id |-> None]
    /\ environ = [n \in EnvNames |-> None]
    /\ client = NoAttrs
    /\ ctor_error = NoError

----------------------------------------------------------------------------
(* generator.py main: saving result.generated_files under --output;        *)
(* previewer.py: load_files_from_directory on that directory (POSIX)       *)

\* most files a result holds
MaxSaved == 2

output_dir == <<"out">>
\* keys of generated_files: relative forward-slash paths
SavedNames == { <<"a", ".txt">>, <<"d", "/", "b", ".txt">>, <<"d", "/", "c", ".txt">> }
\* contents: one line, two lines, two lines with a CRLF ending, non-ASCII text
SavedTexts == { <<"x">>, <<"x", "\n", "y">>, <<"x", "\r", "\n", "y">>,
                <<"caf", "é">> }
NonAscii == { "é" }
\* locale.getencoding() of the process that saves
Encodings == { "utf-8", "latin-1" }
Mappings ==
    UNION { { s \in [1..n -> [name : SavedNames, content : SavedTexts]] :
                \A i, j \in 1..n : s[i].name = s[j].name => i = j }
            : n \in 0..MaxSaved }

linesep == "\n"

\* output_path.write_text(content): text mode writes '\n' as os.linesep and
\* encodes with the locale's encoding
write_text(content, enc) ==
    [kind |-> "file", encoding |-> enc,
     text |-> [i \in DOMAIN content |->
                 IF content[i] = "\n" THEN linesep ELSE content[i]]]

\* the directories output_path.parent.mkdir(parents=True) makes sure of
Parents(path) == { SubSeq(path, 1, i - 1) : i \in { j \in DOMAIN path : path[j] = "/" } }

\* the bytes of a file decode as UTF-8
Decodable(f) ==
    f.encoding = "utf-8" \/ \A i \in DOMAIN f.text : f.text[i] \notin NonAscii

\* text mode with newline=None on reading: '\r\n' and '\r' become '\n'
RECURSIVE UniversalNewlines(_)
UniversalNewlines(t) ==
    IF t = <<>> THEN <<>>
    ELSE IF Head(t) = "\r"
         THEN IF Len(t) >= 2 /\ t[2] = "\n"
              THEN <<"\n">> \o UniversalNewlines(SubSeq(t, 3, Len(t)))
              ELSE <<"\n">> \o UniversalNewlines(Tail(t))
         ELSE <<Head(t)>> \o UniversalNewlines(Tail(t))

\* file_path.read_text(encoding='utf-8') on a decodable file
read_text(f) == UniversalNewlines(f.text)

\* str(file_path.relative_to(directory))
relative_to(path) == SubSeq(path, Len(output_dir) + 2, Len(path))

\* one iteration of `for filename, content in result.generated_files.items()`
SaveFile ==
    /\ spc = "save"
    /\ save_idx <= Len(generated_files)
    /\ LET item == generated_files[save_idx]
           output_path == output_dir \o <<"/">> \o item.name
           made == [x \in (DOMAIN disk) \cup Parents(output_path) |->
                      IF x \in DOMAIN disk THEN disk[x] ELSE [kind |-> "dir"]]
       IN  disk' = Put(made, output_path, write_text(item.content, locale_encoding))
    /\ save_idx' = save_idx + 1
    /\ UNCHANGED <<spc, generated_files, locale_encoding, walked, loaded>>
    /\ UNCHANGED <<gvars, pvars, cvars>>

\* load_files_from_directory up to its loop
StartLoad ==
    /\ spc = "save"
    /\ save_idx > Len(generated_files)
    /\ spc' = IF output_dir \in DOMAIN disk THEN "load" ELSE "loaded"
    /\ UNCHANGED <<generated_files, locale_encoding, save_idx, disk, walked, loaded>>
    /\ UNCHANGED <<gvars, pvars, cvars>>

\* one iteration of `for file_path in directory.rglob('*')`
LoadFile ==
    /\ spc = "load"
    /\ \E file_path \in (DOMAIN disk) \ (walked \cup {output_dir}) :
         /\ walked' = walked \cup {file_path}
         /\ IF disk[file_path].kind = "file" /\ Decodable(disk[file_path])
            THEN loaded' = Append(loaded, [name |-> relative_to(file_path),
                                           content |-> read_text(disk[file_path])])
            ELSE UNCHANGED loaded
    /\ UNCHANGED <<spc, generated_files, locale_encoding, save_idx, disk>>
    /\ UNCHANGED <<gvars, pvars, cvars>>

\* the loop is over: return files
FinishLoad ==
    /\ spc = "load"
    /\ (DOMAIN disk) \ {output_dir} \subseteq walked
    /\ spc' = "loaded"
    /\ UNCHANGED <<generated_files, locale_encoding, save_idx, disk, walked, loaded>>
    /\ UNCHANGED <<gvars, pvars, cvars>>

\* nothing saved or loaded yet
SaveLocals ==
    /\ save_idx = 1
    /\ disk = EmptyDict
    /\ walked = {}
    /\ loaded = <<>>

SaveInit ==
    /\ spc = "save"
    /\ generated_files \in Mappings
    /\ locale_encoding \in Encodings
    /\ SaveLocals

SaveNext ==
    \/ SaveFile
    \/ StartLoad
    \/ LoadFile
    \/ FinishLoad

\* no save in progress, for the other specifications
SaveIdle ==
    /\ spc = "idle"
    /\ generated_files = <<>>
    /\ locale_encoding = "utf-8"
    /\ SaveLocals

----------------------------------------------------------------------------
(* Specifications *)

Init == GenInit /\ PrevIdle /\ CtorIdle /\ SaveIdle
Next == GenNext
\* one generate_code call against an arbitrary sandbox
Spec == Init /\ [][Next]_vars

PInit == PrevInit /\ GenIdle /\ CtorIdle /\ SaveIdle
PNext == PrevNext
\* one preview_directory call against an arbitrary sandbox and user
PreviewSpec == PInit /\ [][PNext]_vars

CInit == CtorInit /\ GenIdle /\ PrevIdle /\ SaveIdle
CNext == CtorNext
\* one construction of E2BAiderClient under arbitrary arguments and environment
CtorSpec == CInit /\ [][CNext]_vars

SInit == SaveInit /\ GenIdle /\ PrevIdle /\ CtorIdle
SNext == SaveNext
\* the generator CLI saves a result's files and the previewer loads them back
SaveLoadSpec == SInit /\ [][SNext]_vars

----------------------------------------------------------------------------
(* Properties *)

Returned == gpc = "done"
NoFiles(r) == DOMAIN r.generated_files = {}

\* the three bookkeeping names the harvest must leave out
Denylist == { <<".aider_prompt.txt">>, <<".aider.input.history">>,
              <<".aider.chat.history.md">> }

\* the path of a listed file relative to project_dir: the leading
\* "<project_dir>/" removed, nothing else
RelativeTo(path) == SubSeq(path, Len(project_dir) + 2, Len(path))

ReadOf(path, kind) ==
    \E i \in DOMAIN read_log : read_log[i].path = path /\ read_log[i].kind = kind
Issued(call) == \E i \in DOMAIN calls : calls[i] = call

\* C1: every result generate_code returns has, when success is false, no
\* generated files and an error message, and when success is true, no error
\* message.
C1_ResultShape ==
    Returned =>
        /\ ~result.success => NoFiles(result) /\ result.error_message.set
        /\ result.success => result.error_message = None

\* a failure result returned after the sandbox had been created
C1_Witness ==
    Returned /\ ~result.success /\ opened = 1 /\ thrown.stage = "tool"

\* C2: a sandbox that was created is released exactly once by the time
\* generate_code has returned, on every exit path, and never more often than
\* it was created.
C2_ReleasedOnce ==
    /\ released <= opened
    /\ Returned /\ opened = 1 => released = 1

\* the harvest raised, and the sandbox was released
C2_Witness ==
    Returned /\ opened = 1 /\ released = 1 /\ thrown.stage = "list"

\* C3: when preview_directory has ended after creating a sandbox, kill() has
\* been invoked exactly once, whatever the outcome.
C3_KilledOnce ==
    ppc = "ended" /\ sandbox => kills = 1

\* C4: a KeyboardInterrupt in the keep-alive loop invokes kill() once and
\* preview_directory then returns the preview URL, also when kill() raises.
C4_InterruptTearsDown ==
    ppc = "ended" /\ interrupted = "keepalive" =>
        /\ kills = 1
        /\ preview_url.set
        /\ preturn = preview_url

\* interrupted in the keep-alive loop, and kill() raised
C4_Witness ==
    ppc = "ended" /\ interrupted = "keepalive" /\ kill_result = "raise"

\* C5: a non-zero exit code of mkdir makes generate_code return a failure
\* with no files and an error message, and no sandbox call follows the mkdir.
C5_MkdirFailureAborts ==
    mkdir_result.exit_code > 0 =>
        /\ Returned
        /\ ~result.success
        /\ NoFiles(result)
        /\ result.error_message.set
        /\ calls = <<RunCall(mkdir_cmd)>>

\* mkdir returned a non-zero exit code
C5_Witness ==
    mkdir_result.exit_code > 0 /\ Returned

\* C6: when the tool returns a non-zero exit code N and no sandbox call
\* raises, the find command is still issued, generate_code returns success
\* and the output contains "Return code: N".
C6_ToolFailureNotFatal ==
    Returned /\ aider_exit > 0 /\ thrown.stage = "none" =>
        /\ Issued(RunCall(find_cmd))
        /\ result.success
        /\ Contains(result.output, <<"Return code: ">> \o IntStr(aider_exit))

\* the tool exited with code 2 and a file was harvested
C6_Witness ==
    /\ Returned /\ aider_exit = 2 /\ thrown.stage = "none"
    /\ find_result.exit_code = 0
    /\ ~NoFiles(result)

\* C7 as stated: whenever a sandbox call raised, generate_code returns a
\* failure with no files whose error_message equals the raised message.
C7_Original ==
    Returned /\ thrown.stage # "none" =>
        /\ ~result.success
        /\ NoFiles(result)
        /\ result.error_message = Some(thrown.msg)

\* C7 (amended): whenever a sandbox call raised, generate_code returns a
\* failure with no files; error_message equals the raised message, except for
\* a failed prompt write, where it is "Failed to write prompt file: " followed
\* by the raised message.
C7_Amended ==
    Returned /\ thrown.stage # "none" =>
        /\ ~result.success
        /\ NoFiles(result)
        /\ result.error_message =
             Some(IF thrown.stage = "prompt"
                  THEN <<"Failed to write prompt file: ">> \o thrown.msg
                  ELSE thrown.msg)

\* the prompt write raised
C7_Witness ==
    Returned /\ thrown.stage = "prompt"

\* C8: the mapping built by _get_generated_files never has one of the three
\* bookkeeping names as a key, and no read is issued for those files.
C8_DenylistExcluded ==
    /\ \A k \in DOMAIN files_dict : k \notin Denylist
    /\ \A k \in DOMAIN result.generated_files : k \notin Denylist
    /\ \A i \in DOMAIN calls :
         calls[i].op = "read" =>
             \A d \in Denylist : calls[i].arg # project_dir \o <<"/">> \o d

\* the listing held the prompt file and another file, and the harvest ended
C8_Witness ==
    /\ Returned /\ result.success
    /\ \E i \in DOMAIN file_paths : file_paths[i] = prompt_file
    /\ <<"a">> \in DOMAIN result.generated_files

\* C9: when a read raised during the harvest, generate_code still returns
\* success, and every listed file whose relative path is not one of the three
\* bookkeeping names has an entry in the returned mapping: one holding its
\* content if it was read, a placeholder beginning "Error reading file: " if
\* its read raised.
C9_ReadFailureIsolated ==
    Returned /\ (\E i \in DOMAIN read_log : read_log[i].kind = "raise") =>
        /\ result.success
        /\ \A i \in DOMAIN file_paths :
             LET path == file_paths[i]
                 gf == result.generated_files
             IN  path # <<>> /\ RelativeTo(path) \notin Denylist =>
                   IF ReadOf(path, "raise")
                   THEN \E k \in DOMAIN gf :
                            StartsWith(gf[k], <<"Error reading file: ">>)
                   ELSE \E k \in DOMAIN gf : gf[k] = ContentOf(path)

\* C10: a non-zero exit code of the find command yields a mapping with the
\* single key "error" whose value is the failure text; nothing is raised and
\* no file is read.
C10_ListingFailure ==
    find_result.exit_code > 0 =>
        /\ DOMAIN files_dict = { <<"error">> }
        /\ files_dict[<<"error">>] = <<"Failed to list files: ">> \o find_result.stderr
        /\ thrown.stage = "none"
        /\ \A i \in DOMAIN calls : calls[i].op # "read"

\* the find command returned a non-zero exit code
C10_Witness ==
    find_result.exit_code > 0 /\ gpc = "return"

----------------------------------------------------------------------------
(* Properties of the previewer's detection and launch *)

\* start_live_preview has passed its detection and validation block
Validated == server_type # "unset"
\* start_live_preview has ended
SlpEnded == slp_return # "pending"

\* the four detection rules, on the loaded file set
FastapiWords == {"fastapi", "FastAPI", "uvicorn", "Uvicorn"}
MentionsFastapi(f) == \E k \in DOMAIN f.content : f.content[k] \in FastapiWords
RuleFastapi ==
    \E i \in DOMAIN files :
        /\ files[i].name[Len(files[i].name)] = ".py"
        /\ MentionsFastapi(files[i])
RulePackageJson ==
    \E i \in DOMAIN files : files[i].name = <<"package", ".json">>
RuleHtml ==
    \E i \in DOMAIN files : files[i].name[Len(files[i].name)] \in {".html", ".htm"}
RuleWebAsset ==
    \E i \in DOMAIN files :
        files[i].name[Len(files[i].name)] \in {".css", ".js", ".jsx", ".ts", ".tsx"}
Classification ==
    CASE RuleFastapi -> "fastapi"
      [] ~RuleFastapi /\ RulePackageJson -> "nodejs"
      [] ~RuleFastapi /\ ~RulePackageJson /\ RuleHtml -> "static"
      [] ~RuleFastapi /\ ~RulePackageJson /\ ~RuleHtml /\ RuleWebAsset -> "static"
      [] OTHER -> "None"

\* C11: detect_server_type classifies a file set by the first matching rule:
\* fastapi when a non-empty .py file mentions fastapi or uvicorn in any case,
\* else nodejs when a file is named exactly package.json, else static when a
\* name ends in .html or .htm, else static when a name ends in .css, .js, .jsx,
\* .ts or .tsx, else None; the empty file set is classified None.
C11_DetectionPrecedence ==
    /\ detect_server_type(files) = Classification
    /\ detect_server_type(<<>>) = "None"
    /\ detected_type \in {"unset", Classification}

\* detection ran on a file set that matches the fastapi and the package.json
\* rule at once
C11_Witness ==
    /\ detected_type = "fastapi"
    /\ RuleFastapi /\ RulePackageJson

\* the profile a command belongs to
ProfileOf(cmd) ==
    IF \E c \in { <<"npm install">>, <<"npm install --no-optional">>,
                  <<"npm run dev">>, <<"npm start">> } : cmd = InDir(c)
    THEN "nodejs"
    ELSE IF StartsWith(cmd, InDir(<<"python -m http.server ">>)) THEN "static"
    ELSE IF \/ StartsWith(cmd, InDir(<<"poetry install">>))
            \/ StartsWith(cmd, InDir(<<"pip install -r requirements.txt">>))
            \/ StartsWith(cmd, InDir(<<"pip install ">>))
            \/ StartsWith(cmd, InDir(<<"poetry run ", "fastapi dev ">>))
            \/ StartsWith(cmd, InDir(<<"fastapi dev ">>))
         THEN "fastapi"
    ELSE "unknown"

\* C12: detection is applied only for preview_type 'auto' (the detected
\* profile, or static when detection returns None); an explicit static, nodejs
\* or fastapi is used as it is, whatever the files; any other preview_type
\* makes start_live_preview return None with no sandbox command issued.
C12_ProfileSelection ==
    Validated =>
        /\ preview_type = "auto" =>
             /\ detected_type = Classification
             /\ server_type = IF Classification # "None" THEN Classification
                              ELSE "static"
        /\ preview_type \in {"static", "nodejs", "fastapi"} =>
             /\ detected_type = "unset"
             /\ server_type = preview_type
        /\ preview_type \notin {"auto", "static", "nodejs", "fastapi"} =>
             /\ slp_return = "returned"
             /\ preview_url = None
             /\ slp_log = <<>>
        /\ \A i \in DOMAIN slp_log :
             slp_log[i].call.op = "run" =>
                 ProfileOf(slp_log[i].call.arg) = server_type

\* an explicit nodejs on files that detection would classify as fastapi, with
\* the server launched
C12_Witness ==
    /\ preview_type = "nodejs"
    /\ Classification = "fastapi"
    /\ SlpEnded /\ preview_url.set

\* positions of slp_log holding a given command, an install command, the
\* start command, the host lookup
LogOf(cmd) == { i \in DOMAIN slp_log : slp_log[i].call = PRunCall(InDir(cmd), FALSE) }
Installs == { i \in DOMAIN slp_log :
                slp_log[i].call.op = "run" /\ ~slp_log[i].call.background }
Starts == { i \in DOMAIN slp_log :
              slp_log[i].call.op = "run" /\ slp_log[i].call.background }
Lookups == { i \in DOMAIN slp_log : slp_log[i].call.op = "get_host" }
Uninterrupted == interrupted = "no"

\* C13: in the nodejs profile npm install runs once; npm install
\* --no-optional runs, once, exactly when npm install returned non-zero; when
\* both return non-zero start_live_preview returns None with no start command
\* and no host lookup; there are never more than two install attempts.
C13_NpmInstallRetry ==
    server_type = "nodejs" =>
        /\ Cardinality(LogOf(<<"npm install">>)) <= 1
        /\ Cardinality(LogOf(<<"npm install --no-optional">>)) <= 1
        /\ Cardinality(Installs) <= 2
        /\ ppc # "npm" /\ Uninterrupted => LogOf(<<"npm install">>) = {1}
        /\ LogOf(<<"npm install --no-optional">>) # {} =>
             /\ LogOf(<<"npm install --no-optional">>) = {2}
             /\ LogOf(<<"npm install">>) = {1}
             /\ slp_log[1].out = "fail"
        /\ (Len(slp_log) >= 1 /\ slp_log[1].out = "fail"
              /\ ppc # "npm_retry" /\ Uninterrupted) =>
             LogOf(<<"npm install --no-optional">>) = {2}
        /\ (Len(slp_log) >= 2 /\ slp_log[1].out = "fail" /\ slp_log[2].out = "fail") =>
             /\ slp_return = "returned"
             /\ preview_url = None
             /\ Starts = {} /\ Lookups = {}

\* npm install and its retry both returned non-zero
C13_Witness ==
    /\ server_type = "nodejs"
    /\ Len(slp_log) = 2
    /\ slp_log[1].out = "fail" /\ slp_log[2].out = "fail"
    /\ SlpEnded

\* some pip install of start_live_preview returned a non-zero exit code
PipFailed ==
    \E i \in DOMAIN slp_log :
        /\ slp_log[i].out = "fail"
        /\ \/ slp_log[i].call = PRunCall(InDir(<<"pip install -r requirements.txt">>), FALSE)
           \/ \E d \in DOMAIN basic_deps :
                slp_log[i].call = PRunCall(InDir(<<"pip install ">> \o basic_deps[d]), FALSE)

\* C14: in the fastapi profile a pip install that returns non-zero, reached
\* directly or after a failed poetry install, makes start_live_preview return
\* None, and the start command is never issued.
C14_PipFailureFatal ==
    server_type = "fastapi" /\ PipFailed =>
        /\ Starts = {}
        /\ ppc \notin {"launch", "host", "keepalive"}
        /\ SlpEnded => preview_url = None

\* the first name of the preference list that is a key of the file set
PreferenceList == << <<"main", ".py">>, <<"app", ".py">>, <<"server", ".py">> >>
PreferredEntry ==
    LET present == { k \in DOMAIN PreferenceList :
                       \E i \in DOMAIN files : files[i].name = PreferenceList[k] }
    IN  IF present = {} THEN <<"main", ".py">>
        ELSE PreferenceList[CHOOSE k \in present : \A j \in present : k <= j]

\* C15: in the fastapi profile the start command names the first of main.py,
\* app.py, server.py that is a key of the file set, main.py if none is,
\* whatever the order of the entries of the mapping.
C15_EntryFilePreference ==
    server_type = "fastapi" =>
        \A i \in Starts :
            slp_log[i].call.arg =
                InDir((IF \E j \in DOMAIN files : files[j].name = <<"poetry", ".lock">>
                       THEN <<"poetry run ">> ELSE <<>>)
                      \o <<"fastapi dev ">> \o PreferredEntry
                      \o <<" --host 0.0.0.0 --port ", "8", "0", "0", "0">>)

\* the package.json of the file set has a key `name` inside its "scripts"
\* object: keys are the atoms at odd offsets after the opening of the object
DeclaresScript(name) ==
    \E f \in DOMAIN files :
        /\ files[f].name = <<"package", ".json">>
        /\ LET c == files[f].content IN
           \E i, j \in DOMAIN c :
               /\ i < j
               /\ c[i] = "\"scripts\": {"
               /\ c[j] = name
               /\ (j - i) % 2 = 1
               /\ \A k \in i..j : c[k] # "}"

\* C16: in the nodejs profile the start command is npm run dev if and only if
\* package.json declares a script named dev, and npm start otherwise, also
\* when there is no package.json.
C16_DevScriptChoice ==
    server_type = "nodejs" =>
        \A i \in Starts :
            slp_log[i].call.arg =
                InDir(IF DeclaresScript("\"dev\"") THEN <<"npm run dev">>
                      ELSE <<"npm start">>)

\* C17: a launch issues exactly one start command, in the background, after
\* every install command; the host of the requested port is looked up only
\* after the start command; the result is https://<host> when the lookup
\* succeeds and None when it fails.
C17_LaunchOrder ==
    /\ Cardinality(Starts) <= 1
    /\ Cardinality(Lookups) <= 1
    /\ ppc \in {"host", "keepalive"} \/ Lookups # {} => Cardinality(Starts) = 1
    /\ \A s \in Starts :
         /\ \A i \in Installs : i < s
         /\ \A i \in Lookups : s < i
    /\ \A h \in Lookups :
         /\ h = Len(slp_log)
         /\ slp_log[h].call.arg = <<"8", "0", "0", "0">>
         /\ h - 1 \in Starts
         /\ slp_log[h - 1].out = "ok"
         /\ slp_return = "returned"
         /\ slp_log[h].out = "ok" =>
              host.set /\ preview_url = Some(<<"https://">> \o host.val)
         /\ slp_log[h].out # "ok" => preview_url = None
    /\ preview_url.set => Lookups # {}

\* an install, the start command and a successful host lookup, in that order
C17_Witness ==
    /\ Len(slp_log) >= 3
    /\ Installs # {} /\ Starts # {} /\ Lookups # {}
    /\ preview_url.set

\* C18: start_live_preview always returns to its caller: when a sandbox call
\* it made raised, the call was its last, the return value is None and
\* nothing propagates to preview_directory.
C18_NeverPropagates ==
    /\ slp_return \in {"pending", "returned"}
    /\ \A i \in DOMAIN slp_log :
         slp_log[i].out = "raise" =>
             /\ i = Len(slp_log)
             /\ slp_return = "returned"
             /\ preview_url = None
             /\ kills = 0

\* the start command raised, after a successful install
C18_Witness ==
    /\ Len(slp_log) >= 2
    /\ Len(slp_log) \in Starts
    /\ slp_log[Len(slp_log)].out = "raise"
    /\ slp_return = "returned"

\* C19: a timeout of the tool invocation, raised by the sandbox, leads to what
\* a non-zero exit code of the tool leads to: the file listing is issued and
\* generate_code returns success.
C19_TimeoutLikeNonZeroExit ==
    (Returned /\ (aider_exit > 0 \/ thrown.stage = "tool")
              /\ thrown.stage \in {"none", "tool"}) =>
        /\ Issued(RunCall(find_cmd))
        /\ result.success

----------------------------------------------------------------------------
(* Properties of the constructor *)

\* the default of an option that has one
DefaultOf(opt) == IF opt = "openai_model" THEN Some(<<"gpt-4">>) ELSE None

\* the value an option resolves to: the argument when one was given and is
\* not empty, else the environment variable when it is set, else the default
Resolved(opt) ==
    IF kwargs[opt].set /\ Len(kwargs[opt].val) > 0 THEN kwargs[opt]
    ELSE IF environ[EnvName(opt)].set THEN environ[EnvName(opt)]
    ELSE DefaultOf(opt)

\* an option resolves to nothing: to None or to the empty string
Missing(opt) == ~Resolved(opt).set \/ Resolved(opt).val = <<>>

\* C20: the constructor resolves each option to the non-empty argument, else
\* the environment value, else the default (gpt-4 for the model); when the
\* E2B key or the OpenAI key resolves to nothing it raises ValueError naming
\* the missing variable, with no sandbox factory set and no sandbox created.
C20_OptionResolution ==
    /\ cpc \notin {"idle", "resolve"} =>
         /\ \A opt \in EnvOptions : client[opt] = Resolved(opt)
         /\ client.sandbox_template = kwargs.sandbox_template
    /\ cpc \notin {"idle", "resolve", "check"} =>
         /\ (Missing("e2b_api_key") \/ Missing("openai_api_key")) =>
              /\ cpc = "raised"
              /\ ctor_error.type = "ValueError"
              /\ \E opt \in {"e2b_api_key", "openai_api_key"} :
                   /\ Missing(opt)
                   /\ ctor_error.message[1] = EnvName(opt)
              /\ client.Sandbox = "unset"
              /\ opened = 0
         /\ ctor_error.type = "ValueError" =>
              Missing("e2b_api_key") \/ Missing("openai_api_key")

\* the E2B key came from the environment because the argument was empty, the
\* model fell back to its default, and the OpenAI key was missing
C20_Witness ==
    /\ cpc = "raised"
    /\ kwargs.e2b_api_key = Some(<<>>)
    /\ client.e2b_api_key = Some(<<"env">>)
    /\ kwargs.openai_model = None
    /\ client.openai_model = Some(<<"gpt-4">>)
    /\ ctor_error = ValueError("OPENAI_API_KEY")

----------------------------------------------------------------------------
(* Properties of saving and loading *)

\* a mapping as the set of its items
Items(m) == { m[i] : i \in DOMAIN m }

\* C21: saving a mapping of relative forward-slash paths to text the way the
\* generator CLI does, then loading the directory with
\* load_files_from_directory, gives back the same keys with the same contents.
C21_RoundTrip ==
    spc = "loaded" => Items(loaded) = Items(generated_files)

----------------------------------------------------------------------------
(* Properties of the install sequence, the prompt file and the streaming *)

\* the stage a caller reads off a failure message
StageOfMessage(m) ==
    IF StartsWith(m, <<"Failed to create project directory: ">>) THEN "setup"
    ELSE IF \/ StartsWith(m, <<"Failed to install aider with command \"">>)
            \/ StartsWith(m, <<"Aider not found after installation: ">>)
         THEN "install"
    ELSE IF StartsWith(m, <<"Failed to write prompt file: ">>) THEN "execution"
    ELSE "unknown"

\* the stage of generate_code in which a command returned non-zero or a call
\* raised
FailedStage ==
    CASE thrown.stage = "mkdir" \/ mkdir_result.exit_code > 0 -> "setup"
      [] thrown.stage = "install"
           \/ (\E i \in DOMAIN install_results : install_results[i] = "fail") -> "install"
      [] thrown.stage \in {"prompt", "tool"} -> "execution"
      [] thrown.stage = "list" -> "harvest"
      [] OTHER -> "none"

\* C22: the error_message of every failure result of generate_code tells the
\* stage that failed (directory setup, install, prompt write or tool
\* execution, harvest), so failures of two stages never read the same.
C22_MessageNamesStage ==
    (Returned /\ ~result.success /\ FailedStage # "none") =>
        /\ result.error_message.set
        /\ StageOfMessage(result.error_message.val) = FailedStage

InstallSeq == << <<"pip install aider-chat">>, <<"pip install openai">>,
                 <<"which aider">> >>
InstallCalls ==
    { i \in DOMAIN calls :
        calls[i].op = "run" /\ \E k \in DOMAIN InstallSeq : calls[i].arg = InstallSeq[k] }

\* C23: without a template id the install commands run in the order pip
\* install aider-chat, pip install openai, which aider, after mkdir and before
\* the prompt write and the tool; the first one returning non-zero is the last
\* call of generate_code, which returns success=false; with a template id no
\* install command runs.
C23_InstallSequence ==
    /\ aider_template_id => InstallCalls = {} /\ install_results = <<>>
    /\ ~aider_template_id =>
         /\ InstallCalls = 2..(1 + Len(install_results))
         /\ Len(install_results) <= Len(InstallSeq)
         /\ \A k \in DOMAIN install_results :
              /\ calls[1] = [op |-> "run", arg |-> <<"mkdir -p '", "/", "tmp", "/", "project", "'">>]
              /\ calls[1 + k] = [op |-> "run", arg |-> InstallSeq[k]]
              /\ install_results[k] = "fail" =>
                   /\ k = Len(install_results)
                   /\ Len(calls) = 1 + k
                   /\ Returned /\ ~result.success
         /\ Len(calls) > 1 + Len(install_results) =>
              install_results = <<"ok", "ok", "ok">>
         /\ gpc \in {"prompt", "tool", "list", "harvest", "return"} =>
              install_results = <<"ok", "ok", "ok">>

\* the second install command returned non-zero
C23_Witness ==
    /\ ~aider_template_id
    /\ install_results = <<"ok", "fail">>
    /\ Returned

ToolCalls ==
    { i \in DOMAIN calls :
        calls[i].op = "run" /\ StartsWith(calls[i].arg, <<"aider --model '">>) }
PromptPath == <<"/", "tmp", "/", "project", "/", ".aider_prompt.txt">>

\* C24: the prompt is written to <project_dir>/.aider_prompt.txt right before
\* the tool command is issued; the command names that file after
\* --message-file and holds no part of the prompt text; when the write fails
\* no tool command is issued and generate_code fails.
C24_PromptFile ==
    /\ \A i \in ToolCalls :
         /\ i > 1
         /\ calls[i - 1] = [op |-> "write", arg |-> PromptPath]
         /\ prompt_data = Some([encoding |-> "utf-8", text |-> prompt])
         /\ Contains(calls[i].arg, <<"--message-file '">> \o PromptPath \o <<"' ">>)
         /\ \A j \in DOMAIN calls[i].arg : \A k \in DOMAIN prompt :
              calls[i].arg[j] # prompt[k]
    /\ thrown.stage = "prompt" =>
         /\ ToolCalls = {}
         /\ prompt_data = None
         /\ Returned /\ ~result.success

\* a prompt with quotes and a newline was written and the tool was run
C24_Witness ==
    /\ prompt = <<"it's ", "\n", "\"quoted\"">>
    /\ ToolCalls # {}
    /\ Returned /\ result.success

\* the chunks delivered on one stream, in delivery order
DeliveredOn(stream) ==
    LET on == SelectSeq(delivered, LAMBDA e : e.stream = stream)
    IN  [i \in DOMAIN on |-> on[i].data]
RECURSIVE Concat(_)
Concat(chunks) ==
    IF chunks = <<>> THEN <<>>
    ELSE Concat(SubSeq(chunks, 1, Len(chunks) - 1)) \o chunks[Len(chunks)]

\* C25: every delivered chunk is printed when it is delivered and appended to
\* the buffer of its stream; the output of _run_aider_prompt is the delivered
\* stdout chunks in delivery order, then the delivered stderr chunks in
\* delivery order, then the exit code.
C25_StreamsKept ==
    /\ printed = [i \in DOMAIN delivered |-> delivered[i].data]
    /\ stdout_buffer = DeliveredOn("stdout")
    /\ stderr_buffer = DeliveredOn("stderr")
    /\ aider_exit >= 0 =>
         output = <<"STDOUT:\n">> \o Concat(DeliveredOn("stdout"))
                    \o <<"\nSTDERR:\n">> \o Concat(DeliveredOn("stderr"))
                    \o <<"\n", "Return code: ">> \o IntStr(aider_exit)

\* two stdout chunks were delivered and the tool invocation returned
C25_Witness ==
    /\ Len(DeliveredOn("stdout")) = 2
    /\ aider_exit >= 0
    /\ Returned /\ result.success


----------------------------------------------------------------------------
(* Properties of the fastapi install strategies *)

\* positions of slp_log where the install command cmd was run
RanInstall(cmd) ==
    { i \in DOMAIN slp_log :
        /\ slp_log[i].call.op = "run" /\ ~slp_log[i].call.background
        /\ slp_log[i].call.arg = <<"cd ", "/", "tmp", "/", "project", " && ">> \o cmd }
RanPoetry == RanInstall(<<"poetry install">>)
RanRequirements == RanInstall(<<"pip install -r requirements.txt">>)
RanFastapi == RanInstall(<<"pip install ", "fastapi">>)
RanUvicorn == RanInstall(<<"pip install ", "uvicorn[standard]">>)
RanPip == RanRequirements \cup RanFastapi \cup RanUvicorn
HasFile(name) == \E i \in DOMAIN files : files[i].name = name
\* the install block of start_live_preview is over
InstallsOver == Starts # {} \/ (SlpEnded /\ \A i \in DOMAIN slp_log : slp_log[i].out # "raise")

\* C26: in the fastapi profile poetry install runs, first, exactly when
\* poetry.lock is present; the pip step runs exactly when poetry.lock is absent
\* or poetry install returned non-zero, never after a successful poetry
\* install; the pip step runs pip install -r requirements.txt exactly when
\* requirements.txt is present, and otherwise pip install fastapi then pip
\* install uvicorn[standard], stopping at the first one returning non-zero.
C26_FastapiInstallStrategy ==
    server_type = "fastapi" =>
        /\ Cardinality(RanPoetry) <= 1 /\ Cardinality(RanRequirements) <= 1
        /\ Cardinality(RanFastapi) <= 1 /\ Cardinality(RanUvicorn) <= 1
        /\ RanPoetry # {} => HasFile(<<"poetry", ".lock">>) /\ RanPoetry = {1}
        /\ (HasFile(<<"poetry", ".lock">>) /\ slp_log # <<>>) => RanPoetry = {1}
        /\ RanPip # {} =>
             \/ ~HasFile(<<"poetry", ".lock">>)
             \/ slp_log[1].out = "fail"
        /\ (InstallsOver /\ (~HasFile(<<"poetry", ".lock">>) \/ slp_log[1].out = "fail")) =>
             RanPip # {}
        /\ RanRequirements # {} => HasFile(<<"requirements", ".txt">>)
        /\ HasFile(<<"requirements", ".txt">>) =>
             /\ RanFastapi = {} /\ RanUvicorn = {}
             /\ RanPip # {} => RanRequirements # {}
        /\ ~HasFile(<<"requirements", ".txt">>) /\ RanPip # {} =>
             /\ RanFastapi = {Cardinality(RanPoetry) + 1}
             /\ RanUvicorn # {} =>
                  /\ RanUvicorn = {Cardinality(RanPoetry) + 2}
                  /\ \A i \in RanFastapi : slp_log[i].out = "ok"
             /\ (InstallsOver /\ \A i \in RanFastapi : slp_log[i].out = "ok") =>
                  RanUvicorn # {}

\* poetry install returned non-zero, and pip installed fastapi and then ran
\* the uvicorn install, which returned non-zero
C26_Witness ==
    /\ server_type = "fastapi"
    /\ Len(slp_log) >= 3
    /\ RanPoetry = {1} /\ slp_log[1].out = "fail"
    /\ RanFastapi = {2} /\ slp_log[2].out = "ok"
    /\ RanUvicorn = {3} /\ slp_log[3].out = "fail"


----------------------------------------------------------------------------
(* Properties of the harvested mapping *)

\* the lines of the listing that name a file
ListedFiles == { file_paths[i] : i \in { j \in DOMAIN file_paths : file_paths[j] # <<>> } }
\* the listing succeeded and the loop over its lines has ended
Harvested == Returned /\ result.success /\ find_result.exit_code = 0

\* C27: every listed file whose relative path is not exactly one of the three
\* bookkeeping names is read and has its relative path as a key of the
\* returned mapping.
C27_HarvestComplete ==
    Harvested =>
        \A path \in ListedFiles :
            RelativeTo(path) \notin Denylist =>
                /\ \E i \in DOMAIN read_log : read_log[i].path = path
                /\ RelativeTo(path) \in DOMAIN result.generated_files

\* C28: every key of the harvested mapping is the path of a harvested file
\* with only the leading '<project_dir>/' removed, and distinct files never
\* share a key, so no entry overwrites another.
C28_KeysFaithfulUnique ==
    (gpc \in {"harvest", "return", "done"} /\ find_result.exit_code = 0) =>
        /\ DOMAIN files_dict = { RelativeTo(read_log[i].path) : i \in DOMAIN read_log }
        /\ Cardinality(DOMAIN files_dict) = Len(read_log)

\* C29: the mapping of a success result holds only files of the listing, each
\* under its relative path, and a failed listing is never returned as a
\* success.
C29_OnlyRealFiles ==
    (Returned /\ result.success) =>
        /\ find_result.exit_code = 0
        /\ \A k \in DOMAIN result.generated_files :
             \E path \in ListedFiles : k = RelativeTo(path)

=============================================================================
